---- MODULE Spec2Model ----
(***************************************************************************)
(* The build pipeline of the LLM app generator: create_build accepts a     *)
(* request and queues process_build_request, which runs generate code,     *)
(* generate README, create repository, add license, push code, enable      *)
(* Pages and notify, with the retry loops of LLMService and                *)
(* EvaluationNotifier, and the failure path through notify_failure.        *)
(*                                                                         *)
(* A job is one invocation of process_build_request.  The jobs of one      *)
(* process are asyncio coroutines on one event loop: `running` is the job  *)
(* that holds the loop, and a job gives it up only where the code awaits   *)
(* something that suspends (asyncio.sleep, an httpx request).              *)
(***************************************************************************)
EXTENDS Integers, Sequences, FiniteSets, TLC

\* ------------------------------------------------------------------ bounds

\* The repository a job finds has between 0 and MaxHistory commits.
MaxHistory == 1

\* The request slots of the model.
AllJobs == {1, 2}

\* -------------------------------------------------------- program constants

MAX_RETRIES == 5
LLM_MAX_RETRIES == 3
LLM_MAX_BACKOFF == 32
PAGES_MAX_RETRIES == 10
PAGES_POLL_INTERVAL == 10

\* Delays are counted in DelayUnit-ths of a second, so that four successive
\* jitters of a multiple of 5% stay exact.
DelayUnit == 20 * 20 * 20 * 20
INITIAL_RETRY_DELAY == 1 * DelayUnit
MAX_RETRY_DELAY == 60 * DelayUnit

\* Settings(): the defaults of config.py.
DefaultSettings ==
    [MAX_RETRIES |-> MAX_RETRIES,
     INITIAL_RETRY_DELAY |-> INITIAL_RETRY_DELAY,
     MAX_RETRY_DELAY |-> MAX_RETRY_DELAY]

\* Settings read from the environment: the defaults, a single attempt, and a
\* low ceiling that the doubling reaches.
SettingsSamples ==
    {DefaultSettings,
     [MAX_RETRIES |-> 1, INITIAL_RETRY_DELAY |-> INITIAL_RETRY_DELAY,
      MAX_RETRY_DELAY |-> MAX_RETRY_DELAY],
     [MAX_RETRIES |-> 4, INITIAL_RETRY_DELAY |-> 2 * DelayUnit,
      MAX_RETRY_DELAY |-> 3 * DelayUnit]}

APP_SECRET == "s3cret"
GITHUB_USERNAME == "octo"

\* ----------------------------------------------------------------- helpers

Min(a, b) == IF a < b THEN a ELSE b

\* r with the fields of s replaced by those of s.
Merge(r, s) == s @@ r

IsPrefix(s, t) == Len(s) <= Len(t) /\ \A i \in 1..Len(s) : s[i] = t[i]

\* A file map: a function from paths to contents.
NoFiles == [p \in {} |-> ""]

\* No answer of the model yet.
NoCodeResponse == [json |-> "", files |-> NoFiles, html |-> ""]

\* dict.update: the entries of new over those of base.
Overlay(base, new) ==
    [p \in DOMAIN base \cup DOMAIN new |->
        IF p \in DOMAIN new THEN new[p] ELSE base[p]]

\* ---------------------------------------------------------------- requests

\* The BuildRequest of slot j, as validated by models.BuildRequest.
Request(j) ==
    [email |-> "student@example.com",
     task |-> "counter-v1",
     round |-> j,
     nonce |-> IF j = 1 THEN "nonce-1" ELSE "nonce-2",
     evaluation_url |-> "https://example.com/evaluate"]

\* The BuildRequest of slot j when the requests in flight are for tasks of
\* their own.
OwnTaskRequest(j) ==
    [Request(j) EXCEPT !.task = IF j = 1 THEN "counter-v1" ELSE "timer-v2",
                       !.round = 1]

RepoNames ==
    {Request(j).task : j \in AllJobs} \cup {OwnTaskRequest(j).task : j \in AllJobs}

\* The positional arguments create_build gives to
\* background_tasks.add_task (main.py:84-95), brief, checks and attachments
\* left out.
TaskArgs(request) ==
    <<request.email, request.task, request.round, request.nonce,
      request.evaluation_url>>

\* The parameters of process_build_request (main.py:102-111), bound by
\* position.
BindParams_Swapped(args) ==
    [email |-> args[1], task |-> args[2], round |-> args[3],
     nonce |-> args[2], evaluation_url |-> args[5]]

BindParams(args) ==
    [email |-> args[1], task |-> args[2], round |-> args[3],
     nonce |-> args[4], evaluation_url |-> args[5]]

NoParams ==
    [email |-> "", task |-> "", round |-> 0, nonce |-> "",
     evaluation_url |-> ""]

\* EvaluationPayload(...).dict() (evaluator.py:37-45, models.py:105-114)
EvaluationPayload(email, task, round, nonce, repo_url, commit_sha, pages_url) ==
    [email |-> email, task |-> task, round |-> round, nonce |-> nonce,
     repo_url |-> repo_url, commit_sha |-> commit_sha, pages_url |-> pages_url]

\* EvaluationFailurePayload(...).dict() (evaluator.py:67-74,
\* models.py:130-138)
EvaluationFailurePayload(email, task, round, nonce, error) ==
    [email |-> email, task |-> task, round |-> round, nonce |-> nonce,
     status |-> "failure", error |-> error]

NoPayload == [email |-> ""]

SecretSamples == {APP_SECRET, "wrong"}

\* BuildResponse(status="accepted", ...) of create_build.
BuildResponse(request) ==
    [status |-> "accepted", task |-> request.task, round |-> request.round]

NoResponse == [status |-> "none", task |-> "", round |-> 0]
Unauthorized == [status |-> "401", task |-> "", round |-> 0]

\* The branch names of the model: "main", which push_code falls back to,
\* and another name a repository found may have as its default branch.
Branches == {"main", "master"}

NoRefs == [b \in Branches |-> 0]

\* ------------------------------------------------------------------- state

VARIABLES
    settings,   \* config.settings
    job,        \* job[j]: the locals of process_build_request and its callees
    obs,        \* obs[j]: what an observer of job j has seen so far
    repos,      \* the hosting side: repos[name]
    commits,    \* the hosting side: the commit objects, by id (index)
    running     \* the job holding the event loop, 0 when none does

vars == <<settings, job, obs, repos, commits, running>>

\* The pipeline steps in the order of process_build_request.
StepOrder ==
    <<"generate_code", "generate_readme", "create_repository", "add_license",
      "push_code", "enable_pages", "notify">>

StepIndex(s) == CHOOSE i \in 1..Len(StepOrder) : StepOrder[i] = s

NewJob ==
    [pc |-> "idle",
     params |-> NoParams,   \* the parameters of process_build_request
     err |-> "",            \* str(e) of the exception caught at main.py:182
     llmAttempt |-> 0,      \* attempt of _generate_with_retry
     app_code |-> NoFiles,
     readme |-> "",
     repo |-> "",           \* the Repository handle (its name)
     default_branch |-> "",
     commit_sha |-> 0,
     pages_url |-> <<>>,     \* a URL is the tuple of its parts
     pollAttempt |-> 0,     \* attempt of enable_github_pages
     sender |-> "",         \* the caller of _send_with_retry
     payload |-> NoPayload, \* payload of _send_with_retry
     attempt |-> 0,         \* attempt of _send_with_retry
     delay |-> 0]           \* delay of _send_with_retry

NewObs ==
    [ack |-> NoResponse,    \* the HTTP response of create_build
     trace |-> <<>>,        \* the steps started, in order
     completed |-> 0,       \* the steps that returned
     failedStep |-> "",     \* the step that raised
     llmTries |-> 0,        \* model invocations of the current call
     llmSleeps |-> 0,       \* backoff sleeps of the current call
     llmCalls |-> 0,        \* model invocations of the job
     llmRaised |-> FALSE,   \* _generate_with_retry raised
     llmDelay |-> 0,        \* seconds of its last backoff sleep
     llmLastErr |-> "",     \* the error of its last failed attempt
     codeResp |-> NoCodeResponse,   \* the model's answer that was parsed
     notifyCalls |-> 0,     \* invocations of notify
     failCalls |-> 0,       \* invocations of notify_failure
     failErr |-> "",        \* the error given to notify_failure
     failRaised |-> FALSE,  \* notify_failure raised
     posts |-> 0,           \* POST requests of the job
     posted |-> NoPayload,  \* the payload of the last POST
     postedTo |-> "",       \* the URL of the last POST
     pagesReq |-> <<>>,     \* the statuses of its Pages requests, in order
     probes |-> 0,          \* reachability probes of enable_github_pages
     probeKinds |-> {},     \* how they ended: "200", "status", "raise"
     waits |-> 0,           \* waits of its polling that ended
     pollWait |-> 0,        \* seconds of the last of them
     sendTries |-> 0,       \* POST requests of _send_with_retry
     sendSleeps |-> 0,      \* backoff sleeps of _send_with_retry
     sendResult |-> "",     \* what _send_with_retry returned: "True", "False"
     lastClass |-> "",      \* the class of the last POST's outcome
     seen2xx |-> 0,         \* POSTs answered 2xx
     seen4xx |-> 0,         \* POSTs answered 4xx
     slept |-> 0,           \* the delay of the last backoff sleep
     base |-> 0,            \* the delay computed last, before its jitter
     repoLookup |-> 0,      \* the status of the repository lookup
     creates |-> 0,         \* create-repo calls of the job
     licLookup |-> 0,       \* the status of the LICENSE lookup
     licHead |-> 0,         \* the head add_license found
     licCommits |-> 0,      \* the commits there were when it was called
     hostFaults |-> 0,      \* hosting-API calls that failed transiently
     pushed |-> FALSE,      \* push_code was called
     pushBase |-> 0,        \* the head of the default branch it found
     pushLookup |-> "",     \* its head lookup: "found", "empty", "failed"
     pushRefs |-> NoRefs,   \* the branch heads it found
     refMode |-> "",        \* push_code updated or created the reference
     outcome |-> ""]        \* how process_build_request ended


SetJob(j, s) == job' = [job EXCEPT ![j] = Merge(@, s)]
SetObs(j, s) == obs' = [obs EXCEPT ![j] = Merge(@, s)]

\* The event loop runs one coroutine at a time: j may take a step when it
\* holds the loop or nobody does.
CanRun(j) == running \in {0, j}

\* ------------------------------------------------------ the hosting side

LicensePath == "LICENSE"
ReadmePath == "README.md"

NoRepo ==
    [exists |-> FALSE, default_branch |-> "main", refs |-> NoRefs,
     pages |-> FALSE]

\* The head of the default branch of a repository, 0 when it has none.
BranchHead(name) == repos[name].refs[repos[name].default_branch]

\* The tree of a repository's head, the empty tree when it has no head.
HeadTree(name) ==
    IF BranchHead(name) = 0 THEN NoFiles ELSE commits[BranchHead(name)].tree

\* The histories a job may find: no repository, an empty one, or one with
\* 1..MaxHistory commits on its default branch, with or without a LICENSE,
\* Pages on or off.
OldTree(lic) ==
    IF lic THEN [p \in {LicensePath, "old.txt"} |->
                    IF p = LicensePath THEN "mit" ELSE "old"]
    ELSE [p \in {"old.txt"} |-> "old"]

History(name, n, lic) ==
    [i \in 1..n |-> [repo |-> name, parent |-> i - 1, tree |-> OldTree(lic)]]

\* ------------------------------------------------------------------- init

JobInit ==
    /\ job = [j \in AllJobs |-> NewJob]
    /\ obs = [j \in AllJobs |-> NewObs]
    /\ running = 0

RepoInit ==
    \E name \in {Request(j).task : j \in AllJobs},
       n \in 0..MaxHistory, lic \in BOOLEAN, pg \in BOOLEAN,
       branch \in Branches :
        /\ n = 0 => ~lic /\ ~pg /\ branch = "main"
        /\ commits = History(name, n, lic)
        /\ \/ /\ n = 0
              /\ repos = [r \in RepoNames |-> NoRepo]
           \/ repos = [r \in RepoNames |->
                         IF r = name
                         THEN [exists |-> TRUE,
                               default_branch |-> branch,
                               refs |-> [b \in Branches |->
                                            IF b = branch THEN n ELSE 0],
                               pages |-> pg]
                         ELSE NoRepo]

Init ==
    /\ settings = DefaultSettings
    /\ JobInit
    /\ RepoInit

\* ------------------------------------------------------------ main.py

\* Where an exception raised at `where` of process_build_request goes: the
\* try body (main.py:126-180) is caught by the handler at 182, the failure
\* notification (185-193) by the handler at 194, which logs and returns;
\* anything else leaves the coroutine.
Caught_LogOnly(where) ==
    CASE where = "try_body" -> "failed"
      [] where = "inner_try" -> "failed"
      [] OTHER -> "crashed"

Caught_NoInnerTry(where) ==
    CASE where = "try_body" -> "except"
      [] OTHER -> "crashed"

Caught(where) ==
    CASE where = "try_body" -> "except"
      [] where = "inner_try" -> "failed"
      [] OTHER -> "crashed"

\* The step process_build_request runs after `step` returned.
NextStep_Swapped(step) ==
    CASE step = "create_repository" -> "push_code"
      [] step = "push_code" -> "add_license"
      [] step = "add_license" -> "enable_pages"
      [] OTHER -> StepOrder[StepIndex(step) + 1]

NextStep(step) == StepOrder[StepIndex(step) + 1]

\* `step` returned: the locals it set, and the next step starts.
Return(j, step, locals) ==
    /\ SetJob(j, [pc |-> NextStep(step)] @@ locals)
    /\ running' = j

Returned(o, step) ==
    Merge(o, [trace |-> Append(o.trace, NextStep(step)),
              completed |-> o.completed + 1])

\* `step` raised e inside the try body.
Raise(j, step, e) ==
    /\ SetJob(j, [pc |-> Caught("try_body"), err |-> e])
    /\ running' = IF Caught("try_body") = "except" THEN j ELSE 0

Raised(o, step) ==
    Merge(o, [failedStep |-> step,
              outcome |-> IF Caught("try_body") = "except" THEN o.outcome
                          ELSE Caught("try_body")])

\* create_build (main.py:59-99): a wrong secret is answered 401; otherwise
\* the job is queued as a background task and "accepted" is returned.
create_build_Inline(j, secret, request) ==
    /\ running = 0
    /\ job[j].pc = "idle"
    /\ IF secret # APP_SECRET
       THEN /\ SetJob(j, [pc |-> "rejected"])
            /\ SetObs(j, [ack |-> Unauthorized])
       ELSE /\ SetJob(j, [pc |-> "queued",
                          params |-> BindParams(TaskArgs(request))])
            /\ obs' = obs
    /\ UNCHANGED <<settings, repos, commits, running>>

create_build(j, secret, request) ==
    /\ running = 0
    /\ job[j].pc = "idle"
    /\ IF secret # APP_SECRET
       THEN /\ SetJob(j, [pc |-> "rejected"])
            /\ SetObs(j, [ack |-> Unauthorized])
       ELSE /\ SetJob(j, [pc |-> "queued",
                          params |-> BindParams(TaskArgs(request))])
            /\ SetObs(j, [ack |-> BuildResponse(request)])
    /\ UNCHANGED <<settings, repos, commits, running>>

\* process_build_request starts (main.py:124-130).
StartJob(j) ==
    /\ CanRun(j)
    /\ job[j].pc = "queued"
    /\ SetJob(j, [pc |-> StepOrder[1]])
    /\ SetObs(j, [trace |-> <<StepOrder[1]>>])
    /\ running' = j
    /\ UNCHANGED <<settings, repos, commits>>


\* ------------------------------------------------------- llm_service.py

HtmlPaths == {"index.html", "app.html", "page.html"}

\* k.endswith('.html'), over the paths of the model: "notes.html.txt" and
\* "html" do not end with it.
EndsWithHtml(k) == k \in HtmlPaths

FileMap1 == [p \in {"index.html", "script.js"} |->
                IF p = "index.html" THEN "c1" ELSE "c2"]
FileMap2 == [p \in {"app.html", "script.js"} |->
                IF p = "app.html" THEN "c1" ELSE "c2"]
FileMap3 == [p \in {"app.html", "page.html"} |->
                IF p = "app.html" THEN "c1" ELSE "c2"]
FileMap4 == [p \in {"script.js"} |-> "c2"]
FileMap5 == [p \in {"notes.html.txt", "html"} |-> "c1"]

\* What the model answers to the code prompt: text that is a JSON object, a
\* JSON value of another type, or no JSON, with or without an HTML document
\* in it (an HTML document inside a JSON object is the content of a file).
CodeResponses ==
    {[json |-> "dict", files |-> FileMap1, html |-> ""],
     [json |-> "dict", files |-> FileMap2, html |-> ""],
     [json |-> "dict", files |-> FileMap3, html |-> "c1"],
     [json |-> "dict", files |-> FileMap4, html |-> ""],
     [json |-> "dict", files |-> FileMap5, html |-> "c1"],
     [json |-> "list", files |-> NoFiles, html |-> ""],
     [json |-> "invalid", files |-> NoFiles, html |-> "c3"],
     [json |-> "invalid", files |-> NoFiles, html |-> ""]}

\* What the model answers to the README prompt, fenced or not.
ReadmeResponses ==
    {[fence |-> "", body |-> "readme"],
     [fence |-> "fence markdown", body |-> "readme"],
     [fence |-> "fence", body |-> "readme"]}

ParseOk(files) == [ok |-> TRUE, files |-> files, error |-> ""]
ParseError(e) == [ok |-> FALSE, files |-> NoFiles, error |-> e]

\* code_files["index.html"] = code_files.pop(old)
Rename_KeepOld(files, old, new) ==
    [p \in DOMAIN files \cup {new} |->
        IF p = new THEN files[old] ELSE files[p]]

Rename(files, old, new) ==
    [p \in (DOMAIN files \ {old}) \cup {new} |->
        IF p = new THEN files[old] ELSE files[p]]

\* "index.html" in code_files (llm_service.py:274)
HasIndex_AnyFile(files) == DOMAIN files # {}

HasIndex(files) == "index.html" \in DOMAIN files

\* _parse_code_response (llm_service.py:251-307)
_parse_code_response(r) ==
    CASE r.json = "dict" ->
            IF HasIndex(r.files)
            THEN ParseOk(r.files)
            ELSE LET html_files == {k \in DOMAIN r.files : EndsWithHtml(k)}
                 IN  IF Cardinality(html_files) = 1
                     THEN ParseOk(Rename(r.files,
                                         CHOOSE k \in html_files : TRUE,
                                         "index.html"))
                     ELSE ParseError("Generated code must include index.html")
      [] r.json = "list" ->
            ParseError("Response must be a JSON object/dictionary")
      [] OTHER ->
            IF r.html # ""
            THEN ParseOk([p \in {"index.html"} |-> r.html])
            ELSE ParseError("Failed to parse code from LLM response")

\* _clean_response (llm_service.py:309-322)
_clean_response(r) == r.body

\* _exponential_backoff (llm_service.py:324-329): the delay in seconds.
_exponential_backoff_Linear(attempt) == Min(2 * attempt, LLM_MAX_BACKOFF)

_exponential_backoff(attempt) == Min(2 ^ attempt, LLM_MAX_BACKOFF)

\* What model.generate_content raises when it fails.
ModelErrors == {"model timeout", "model 500"}

\* raise Exception("Failed to generate content after retries")
\* (llm_service.py:249), after the loop.
ExhaustedError == "Failed to generate content after retries"

\* _generate_with_retry re-raises the failure of its last attempt
\* (llm_service.py:245-246) and backs off after any other.
LLMGivesUp(attempt, max_retries) == attempt = max_retries - 1

\* The bare `raise` of llm_service.py:246: the exception e being handled.
Reraise(e) == e

LLMSteps == {"generate_code", "generate_readme"}

BackoffPc(step) ==
    IF step = "generate_code" THEN "generate_code_backoff"
    ELSE "generate_readme_backoff"

StepOfBackoff(pc) ==
    IF pc = "generate_code_backoff" THEN "generate_code" ELSE "generate_readme"

\* One attempt of _generate_with_retry: model.generate_content raises
\* (llm_service.py:243-247).
GenerateRaises(j) ==
    /\ CanRun(j)
    /\ job[j].pc \in LLMSteps
    /\ job[j].llmAttempt < LLM_MAX_RETRIES
    /\ \E e \in ModelErrors :
        LET step == job[j].pc
            o == Merge(obs[j], [llmTries |-> obs[j].llmTries + 1,
                                llmCalls |-> obs[j].llmCalls + 1,
                                llmLastErr |-> e])
        IN  IF LLMGivesUp(job[j].llmAttempt, LLM_MAX_RETRIES)
            THEN /\ Raise(j, step, Reraise(e))
                 /\ obs' = [obs EXCEPT ![j] =
                               Raised(Merge(o, [llmRaised |-> TRUE]), step)]
            ELSE /\ SetJob(j, [pc |-> BackoffPc(step)])
                 /\ obs' = [obs EXCEPT ![j] = o]
                 /\ running' = 0
    /\ UNCHANGED <<settings, repos, commits>>

\* The backoff sleep of _generate_with_retry ends and the loop goes on
\* (llm_service.py:247, 239).
GenerateBackoff(j) ==
    /\ CanRun(j)
    /\ job[j].pc \in {BackoffPc(s) : s \in LLMSteps}
    /\ SetJob(j, [pc |-> StepOfBackoff(job[j].pc),
                  llmAttempt |-> job[j].llmAttempt + 1])
    /\ SetObs(j, [llmSleeps |-> obs[j].llmSleeps + 1,
                  llmDelay |-> _exponential_backoff(job[j].llmAttempt)])
    /\ running' = j
    /\ UNCHANGED <<settings, repos, commits>>

\* generate_app_code (llm_service.py:19-44): the model answers and the
\* answer is parsed; a parse error goes to the orchestrator.
GenerateCode(j) ==
    /\ CanRun(j)
    /\ job[j].pc = "generate_code"
    /\ job[j].llmAttempt < LLM_MAX_RETRIES
    /\ \E r \in CodeResponses :
        LET parsed == _parse_code_response(r)
            o == Merge(obs[j], [llmTries |-> obs[j].llmTries + 1,
                                llmCalls |-> obs[j].llmCalls + 1,
                                llmLastErr |-> "",
                                codeResp |-> r])
        IN  IF parsed.ok
            THEN /\ Return(j, "generate_code",
                           [app_code |-> parsed.files, llmAttempt |-> 0])
                 /\ obs' = [obs EXCEPT ![j] =
                               Returned(Merge(o, [llmTries |-> 0,
                                                  llmSleeps |-> 0,
                                                  llmDelay |-> 0]),
                                        "generate_code")]
            ELSE /\ Raise(j, "generate_code", parsed.error)
                 /\ obs' = [obs EXCEPT ![j] = Raised(o, "generate_code")]
    /\ UNCHANGED <<settings, repos, commits>>

\* generate_readme (llm_service.py:46-66): the model answers and the answer
\* is cleaned.
GenerateReadme(j) ==
    /\ CanRun(j)
    /\ job[j].pc = "generate_readme"
    /\ job[j].llmAttempt < LLM_MAX_RETRIES
    /\ \E r \in ReadmeResponses :
        /\ Return(j, "generate_readme",
                  [readme |-> _clean_response(r), llmAttempt |-> 0])
        /\ obs' = [obs EXCEPT ![j] =
                      Returned(Merge(obs[j],
                                     [llmTries |-> 0,
                                      llmSleeps |-> 0,
                                      llmDelay |-> 0,
                                      llmLastErr |-> "",
                                      llmCalls |-> obs[j].llmCalls + 1]),
                               "generate_readme")]
    /\ UNCHANGED <<settings, repos, commits>>


\* ---------------------------------------------------- github_service.py

\* What a lookup of the hosting API answers: found or not-found as the
\* state has it, or a failure of the call itself.
LookupStatuses(found) == {IF found THEN 200 ELSE 404, 403, 500}

GithubError(status) ==
    CASE status = 403 -> "github 403"
      [] status = 404 -> "github 404"
      [] OTHER -> "github 500"

\* A timeout, a connection error (status 0) or a 5xx answer.
Transient(status) == status = 0 \/ status >= 500

\* What a method of GitHubService does with the failure of one of its
\* hosting-API calls: `except Exception as e: ... raise`
\* (github_service.py:80-82, 110-112, 195-197, 266-268).
OnHostingFault_Retry(step) == "retry"

OnHostingFault(step) == "raise"

\* A hosting-API call of `step` failed with e, o being what was observed of
\* the job up to the call.
HostFault(j, step, e, transient, o) ==
    LET seen == Merge(o, [hostFaults |-> o.hostFaults +
                                         (IF transient THEN 1 ELSE 0)])
    IN  IF OnHostingFault(step) = "raise"
        THEN /\ Raise(j, step, e)
             /\ obs' = [obs EXCEPT ![j] = Raised(seen, step)]
        ELSE /\ o.hostFaults < 2
             /\ job' = job
             /\ obs' = [obs EXCEPT ![j] = seen]
             /\ running' = j

\* user.create_repo(name, auto_init=False)
CreatedRepo ==
    [exists |-> TRUE, default_branch |-> "main", refs |-> NoRefs,
     pages |-> FALSE]

\* Whether create_repository goes on to create the repository after its
\* lookup failed with `status`: `if e.status != 404: raise`
\* (github_service.py:61-63).
CreatesOn_AnyError(status) == status # 200

CreatesOn(status) == status = 404

\* The repository of a task: github_service.create_repository(task, ...)
\* (main.py:141-144).
RepoNameFor_Shared(task) == "counter-v1"

RepoNameFor(task) == task

\* create_repository (github_service.py:53-79) up to its settle delay: the
\* repository is looked up; found, its handle is returned; not found (404),
\* it is created, which the hosting side refuses for a name that exists;
\* any other failure is raised.
CreateRepository(j) ==
    /\ CanRun(j)
    /\ job[j].pc = "create_repository"
    /\ LET name == RepoNameFor(job[j].params.task)
       IN  \E status \in LookupStatuses(repos[name].exists), created \in BOOLEAN :
            LET looked == Merge(obs[j], [repoLookup |-> status])
                called == Merge(looked, [creates |-> obs[j].creates + 1])
            IN
            CASE status = 200 ->
                    /\ created
                    /\ Return(j, "create_repository",
                              [repo |-> name,
                               default_branch |-> repos[name].default_branch])
                    /\ obs' = [obs EXCEPT ![j] =
                                  Returned(looked, "create_repository")]
                    /\ UNCHANGED repos
              [] status # 200 /\ CreatesOn(status) ->
                    IF repos[name].exists
                    THEN /\ created
                         /\ HostFault(j, "create_repository", "github 422",
                                      FALSE, called)
                         /\ UNCHANGED repos
                    ELSE IF created
                    THEN /\ repos' = [repos EXCEPT ![name] = CreatedRepo]
                         /\ SetJob(j, [pc |-> "create_repository_settle",
                                       repo |-> name,
                                       default_branch |->
                                           CreatedRepo.default_branch])
                         /\ obs' = [obs EXCEPT ![j] = called]
                         /\ running' = 0
                    ELSE /\ HostFault(j, "create_repository", GithubError(500),
                                      TRUE, called)
                         /\ UNCHANGED repos
              [] OTHER ->
                    /\ created
                    /\ HostFault(j, "create_repository", GithubError(status),
                                 Transient(status), looked)
                    /\ UNCHANGED repos
    /\ UNCHANGED <<settings, commits>>

\* The settle delay of create_repository ends (github_service.py:76-79).
CreateRepositorySettled(j) ==
    /\ CanRun(j)
    /\ job[j].pc = "create_repository_settle"
    /\ Return(j, "create_repository", [repo |-> job[j].repo])
    /\ obs' = [obs EXCEPT ![j] = Returned(@, "create_repository")]
    /\ UNCHANGED <<settings, repos, commits>>

\* repo.create_file(path, message, content): one commit on the default
\* branch, on top of its head.
FileCommit(name, path, content) ==
    [repo |-> name,
     parent |-> BranchHead(name),
     tree |-> Overlay(HeadTree(name), [p \in {path} |-> content])]

\* Whether add_license goes on to commit the file after its lookup failed
\* with `status`: `if e.status != 404: raise` (github_service.py:93-95).
CommitsLicenseOn_AnyError(status) == status # 200

CommitsLicenseOn(status) == status = 404

\* add_license (github_service.py:85-112): nothing when LICENSE is found;
\* not found (404), it is committed; any other failure is raised.
AddLicense(j) ==
    /\ CanRun(j)
    /\ job[j].pc = "add_license"
    /\ LET name == job[j].repo
       IN  \E status \in LookupStatuses(LicensePath \in DOMAIN HeadTree(name)),
              created \in BOOLEAN :
            LET o == Merge(obs[j], [licLookup |-> status,
                                    licHead |-> BranchHead(name),
                                    licCommits |-> Len(commits)])
            IN
            CASE status = 200 ->
                    /\ created
                    /\ Return(j, "add_license", [repo |-> name])
                    /\ obs' = [obs EXCEPT ![j] = Returned(o, "add_license")]
                    /\ UNCHANGED <<repos, commits>>
              [] status # 200 /\ CommitsLicenseOn(status) ->
                    IF created
                    THEN /\ commits' = Append(commits,
                                              FileCommit(name, LicensePath, "mit"))
                         /\ repos' = [repos EXCEPT
                                        ![name].refs[repos[name].default_branch] =
                                            Len(commits) + 1]
                         /\ Return(j, "add_license", [repo |-> name])
                         /\ obs' = [obs EXCEPT ![j] = Returned(o, "add_license")]
                    ELSE /\ HostFault(j, "add_license", GithubError(500), TRUE, o)
                         /\ UNCHANGED <<repos, commits>>
              [] OTHER ->
                    /\ created
                    /\ HostFault(j, "add_license", GithubError(status),
                                 Transient(status), o)
                    /\ UNCHANGED <<repos, commits>>
    /\ UNCHANGED settings

\* The calls of push_code that may fail, in the order it makes them; "none"
\* when all succeed.  A failed head lookup is a GithubException
\* ("get_ref") or another exception ("get_ref_other").
PushFaults ==
    {"none", "get_ref", "get_ref_other", "create_blob", "create_tree",
     "create_commit", "update_ref"}

\* The tree elements of push_code: the code files and README.md
\* (github_service.py:139-163).
TreeElements_NoReadme(code_files, readme_content) == code_files

TreeElements(code_files, readme_content) ==
    Overlay(code_files, [p \in {ReadmePath} |-> readme_content])

\* repo.create_git_tree(tree_elements, base_tree) or, without a base
\* tree, repo.create_git_tree(tree_elements) (github_service.py:165-169).
PushTree_NoBase(has_base, base_tree, elements) == elements

PushTree(has_base, base_tree, elements) ==
    IF has_base THEN Overlay(base_tree, elements) ELSE elements

\* parents=[parent_commit] or parents=[] (github_service.py:171-185).
PushParent_Root(has_base, head) == 0

PushParent(has_base, head) == IF has_base THEN head ELSE 0

\* push_code (github_service.py:126-197).  The lookup of the head of
\* repo.default_branch (github_service.py:130-137) fails with a
\* GithubException on an empty repository: then, and after any other
\* GithubException, the branch is "main", a root commit is made and the
\* reference of the branch is created, which the hosting side refuses when
\* the branch exists; with a head, the commit is made on top of it and the
\* reference is edited.
PushCode(j) ==
    /\ CanRun(j)
    /\ job[j].pc = "push_code"
    /\ LET name == job[j].repo
           head == repos[name].refs[job[j].default_branch]
       IN  \E fault \in PushFaults :
            LET has_base == head # 0 /\ fault # "get_ref"
                default_branch == IF has_base THEN job[j].default_branch
                                  ELSE "main"
                elements == TreeElements(job[j].app_code, job[j].readme)
                commit == [repo |-> name,
                           parent |-> PushParent(has_base, head),
                           tree |-> PushTree(has_base,
                                             IF head = 0 THEN NoFiles
                                             ELSE commits[head].tree,
                                             elements)]
                sha == Len(commits) + 1
                ref_ok == /\ fault # "update_ref"
                          /\ has_base \/ repos[name].refs["main"] = 0
                o == Merge(obs[j], [pushed |-> TRUE,
                                    pushLookup |->
                                        IF fault \in {"get_ref", "get_ref_other"}
                                        THEN "failed"
                                        ELSE IF head # 0 THEN "found"
                                        ELSE "empty",
                                    pushBase |-> BranchHead(name),
                                    pushRefs |-> repos[name].refs])
            IN  IF fault \in {"get_ref_other", "create_blob", "create_tree",
                              "create_commit"}
                THEN /\ HostFault(j, "push_code", GithubError(500), TRUE, o)
                     /\ UNCHANGED <<repos, commits>>
                ELSE /\ commits' = Append(commits, commit)
                     /\ IF ref_ok
                        THEN /\ repos' = [repos EXCEPT
                                            ![name].refs[default_branch] = sha]
                             /\ Return(j, "push_code", [commit_sha |-> sha])
                             /\ obs' = [obs EXCEPT ![j] =
                                          Returned(Merge(o, [refMode |->
                                              IF has_base THEN "update"
                                              ELSE "create"]), "push_code")]
                        ELSE /\ HostFault(j, "push_code",
                                          IF fault = "update_ref"
                                          THEN GithubError(500)
                                          ELSE "github 422",
                                          fault = "update_ref", o)
                             /\ UNCHANGED repos
    /\ UNCHANGED settings

\* f"https://{self.username}.github.io/{repo.name}/"
PagesUrl(name) == <<"https://", GITHUB_USERNAME, ".github.io/", name, "/">>

\* The loop variable of the readiness polling after a probe.
PollNext_Stuck(attempt) == attempt

PollNext(attempt) == attempt + 1

\* response.status_code not in [201, 409] (github_service.py:236)
EnableAccepted_Only201(status) == status = 201

EnableAccepted(status) == status \in {201, 409}

\* enable_github_pages up to its first wait (github_service.py:209-249):
\* the Pages status is looked up; 200 is "already enabled"; on 404 the site
\* is created, and 201 and 409 are accepted; anything else is raised.
EnablePages(j) ==
    /\ CanRun(j)
    /\ job[j].pc = "enable_pages"
    /\ LET name == job[j].repo
       IN  \E get \in LookupStatuses(repos[name].pages) \cup {0},
              post \in {201, 409, 500, 0} :
            LET enabled == get = 200 \/ (get = 404 /\ EnableAccepted(post))
                o == Merge(obs[j], [pagesReq |-> IF get = 404 THEN <<get, post>>
                                                 ELSE <<get>>])
            IN  /\ get # 404 => post = 201
                /\ repos' = IF get = 404 /\ post = 201
                            THEN [repos EXCEPT ![name].pages = TRUE]
                            ELSE repos
                /\ IF enabled
                   THEN IF 0 < PAGES_MAX_RETRIES
                        THEN /\ SetJob(j, [pc |-> "pages_wait",
                                           pages_url |-> PagesUrl(name),
                                           pollAttempt |-> 0])
                             /\ obs' = [obs EXCEPT ![j] = o]
                             /\ running' = 0
                        ELSE /\ Return(j, "enable_pages",
                                       [pages_url |-> PagesUrl(name)])
                             /\ obs' = [obs EXCEPT ![j] =
                                           Returned(o, "enable_pages")]
                   ELSE HostFault(j, "enable_pages",
                                  CASE get = 0 \/ (get = 404 /\ post = 0) ->
                                            "connection error"
                                    [] get = 404 -> "Failed to enable Pages"
                                    [] OTHER -> "Failed to check Pages status",
                                  Transient(IF get = 404 THEN post ELSE get),
                                  o)
    /\ UNCHANGED <<settings, commits>>

\* The 10-second wait of the polling loop ends and the probe is sent
\* (github_service.py:249-255).
PagesWait(j) ==
    /\ CanRun(j)
    /\ job[j].pc = "pages_wait"
    /\ SetJob(j, [pc |-> "pages_probe"])
    \* the count stops one past the attempts the loop has
    /\ SetObs(j, [waits |-> Min(obs[j].waits + 1, PAGES_MAX_RETRIES + 1),
                  pollWait |-> PAGES_POLL_INTERVAL])
    /\ running' = 0
    /\ UNCHANGED <<settings, repos, commits>>

\* The probe is answered (github_service.py:255-264): 200 returns the URL;
\* any other status or an exception goes on to the next attempt, and the
\* URL is returned when none is left.
ProbeOutcomes == {200, 404, 0}

\* response.status_code == 200 (github_service.py:256): the polling
\* returns.
PollStops_Never(status) == FALSE

PollStops(status) == status = 200

\* What the polling loop does after a probe that raised: `except
\* Exception` logs and the loop goes on (github_service.py:259-260).
OnProbeError_Raise(status) == IF status = 0 THEN "raise" ELSE "next"

OnProbeError(status) == "next"

ProbeKind(status) ==
    CASE status = 200 -> "200"
      [] status = 0 -> "raise"
      [] OTHER -> "status"

PagesProbe(j) ==
    /\ CanRun(j)
    /\ job[j].pc = "pages_probe"
    /\ \E status \in ProbeOutcomes :
        \* the count stops one past the attempts the loop has
        LET o == Merge(obs[j],
                       [probes |-> Min(obs[j].probes + 1, PAGES_MAX_RETRIES + 1),
                        probeKinds |-> obs[j].probeKinds \cup {ProbeKind(status)}])
        IN  IF OnProbeError(status) = "raise"
            THEN /\ Raise(j, "enable_pages", "connection error")
                 /\ obs' = [obs EXCEPT ![j] = Raised(o, "enable_pages")]
            ELSE IF ~PollStops(status)
                    /\ PollNext(job[j].pollAttempt) < PAGES_MAX_RETRIES
            THEN /\ SetJob(j, [pc |-> "pages_wait",
                               pollAttempt |-> PollNext(job[j].pollAttempt)])
                 /\ obs' = [obs EXCEPT ![j] = o]
                 /\ running' = 0
            ELSE /\ Return(j, "enable_pages", [pollAttempt |-> 0])
                 /\ obs' = [obs EXCEPT ![j] = Returned(o, "enable_pages")]
    /\ UNCHANGED <<settings, repos, commits>>


\* ----------------------------------------------------------- evaluator.py

\* What a POST to the callback URL ends in: a response with its status, or
\* an exception (httpx.TimeoutException, httpx.RequestError, another).
PostStatuses == {200, 299, 300, 400, 499, 500}

PostOutcomes ==
    [kind : {"response"}, status : PostStatuses]
    \cup [kind : {"timeout", "request_error", "exception"}, status : {0}]

\* 200 <= response.status_code < 300 (evaluator.py:113)
Is2xx_Wide(status) == 200 <= status /\ status <= 300

Is2xx(status) == 200 <= status /\ status < 300

\* 400 <= response.status_code < 500 (evaluator.py:123)
Is4xx_Wide(status) == 400 <= status /\ status < 600

Is4xx(status) == 400 <= status /\ status < 500

\* attempt < self.max_retries - 1 (evaluator.py:137)
SleepsAfter_Always(attempt, max_retries) == attempt < max_retries

SleepsAfter(attempt, max_retries) == attempt < max_retries - 1

\* min(delay * 2, self.max_delay) (evaluator.py:142)
Backoff_NoCeiling(delay, max_delay) == delay * 2

Backoff(delay, max_delay) == Min(delay * 2, max_delay)

\* delay * 0.1 * (random.random() * 2 - 1) (evaluator.py:145), for
\* random.random() * 2 - 1 = tenths / 10
Jitter(delay, tenths) == (delay * tenths) \div 100

\* The values of 10 * (random.random() * 2 - 1) drawn: random() is in [0, 1).
JitterDraws == {-10, 5}

\* How the outcome of a POST reads to the caller of the callback: success,
\* client error, or anything else.
OutcomeClass(out) ==
    CASE out.kind = "response" /\ out.status \in 200..299 -> "2xx"
      [] out.kind = "response" /\ out.status \in 400..499 -> "4xx"
      [] OTHER -> "other"

\* process_build_request after notify returned `result` (main.py:167-180):
\* the result is not looked at.
AfterNotify_Checked(result) == IF result = "False" THEN "except" ELSE "done"

AfterNotify(result) == "done"

\* _send_with_retry returns `result` to notify or notify_failure, which
\* return it to process_build_request.
SendReturn(j, o, result, locals) ==
    LET next == IF locals.sender = "notify" THEN AfterNotify(result)
                ELSE "failed"
    IN  /\ SetJob(j, [pc |-> next,
                      err |-> IF next = "except" THEN "not delivered"
                              ELSE job[j].err] @@ locals)
        /\ obs' = [obs EXCEPT ![j] =
                      Merge(o, [sendResult |-> result,
                                completed |-> IF next = "done"
                                              THEN o.completed + 1
                                              ELSE o.completed,
                                failedStep |-> IF next = "except" THEN "notify"
                                               ELSE o.failedStep,
                                outcome |-> IF next = "except" THEN o.outcome
                                            ELSE next])]
        /\ running' = IF next = "except" THEN j ELSE 0

\* _send_with_retry starts (evaluator.py:99-106): the first POST is sent.
SendStart(j, o, caller, payload) ==
    IF 0 < settings.MAX_RETRIES
    THEN /\ SetJob(j, [pc |-> "send_post", sender |-> caller, attempt |-> 0,
                       payload |-> payload,
                       delay |-> settings.INITIAL_RETRY_DELAY])
         /\ obs' = [obs EXCEPT ![j] = o]
         /\ running' = 0
    ELSE SendReturn(j, o, "False", [sender |-> caller, payload |-> payload])

\* repo.html_url
HtmlUrl(name) == <<"https://github.com/", GITHUB_USERNAME, "/", name>>

\* notify (evaluator.py:20-51), called at main.py:167 once
\* enable_github_pages returned: the payload is built, which may fail, and
\* _send_with_retry starts.
Notify(j) ==
    /\ CanRun(j)
    /\ job[j].pc = "notify"
    /\ LET o == Merge(obs[j], [notifyCalls |-> obs[j].notifyCalls + 1,
                               pagesReq |-> <<>>,
                               probes |-> 0,
                               waits |-> 0,
                               pollWait |-> 0,
                               probeKinds |-> {}])
           p == job[j].params
       IN  \/ SendStart(j, o, "notify",
                        EvaluationPayload(p.email, p.task, p.round, p.nonce,
                                          HtmlUrl(job[j].repo),
                                          job[j].commit_sha,
                                          job[j].pages_url))
           \/ /\ Raise(j, "notify", "validation error")
              /\ obs' = [obs EXCEPT ![j] = Raised(o, "notify")]
    /\ UNCHANGED <<settings, repos, commits>>

\* What the handler of main.py:182-195 does to the repositories: it logs
\* and calls notify_failure, and makes no call to GitHubService.
HandlerLeaves_DeletesRepo(rs, name) == [rs EXCEPT ![name] = NoRepo]

HandlerLeaves(rs, name) == rs

\* The handler of main.py:182-195: notify_failure (evaluator.py:53-80) is
\* called with str(e); the payload is built, which may fail, and
\* _send_with_retry starts.
NotifyFailure(j) ==
    /\ CanRun(j)
    /\ job[j].pc = "except"
    /\ LET o == Merge(obs[j], [failCalls |-> obs[j].failCalls + 1,
                               failErr |-> job[j].err])
           p == job[j].params
       IN  \/ SendStart(j, o, "notify_failure",
                        EvaluationFailurePayload(p.email, p.task, p.round,
                                                 p.nonce, job[j].err))
           \/ /\ SetJob(j, [pc |-> Caught("inner_try")])
              /\ obs' = [obs EXCEPT ![j] =
                            Merge(o, [failRaised |-> TRUE,
                                      outcome |-> Caught("inner_try")])]
              /\ running' = 0
    /\ repos' = HandlerLeaves(repos, job[j].params.task)
    /\ UNCHANGED <<settings, commits>>

\* One POST of _send_with_retry is answered (evaluator.py:106-137): 2xx
\* returns True, 4xx returns False, anything else sleeps when attempts are
\* left and otherwise ends the loop.
SendPost(j) ==
    /\ CanRun(j)
    /\ job[j].pc = "send_post"
    /\ \E out \in PostOutcomes :
        LET class == OutcomeClass(out)
            o == Merge(obs[j],
                       [posts |-> obs[j].posts + 1,
                        posted |-> job[j].payload,
                        postedTo |-> job[j].params.evaluation_url,
                        sendTries |-> obs[j].sendTries + 1,
                        lastClass |-> class,
                        seen2xx |-> obs[j].seen2xx + (IF class = "2xx" THEN 1 ELSE 0),
                        seen4xx |-> obs[j].seen4xx + (IF class = "4xx" THEN 1 ELSE 0)])
        IN  CASE out.kind = "response" /\ Is2xx(out.status) ->
                    SendReturn(j, o, "True", [sender |-> job[j].sender])
              [] out.kind = "response" /\ ~Is2xx(out.status) /\ Is4xx(out.status) ->
                    SendReturn(j, o, "False", [sender |-> job[j].sender])
              [] OTHER ->
                    IF SleepsAfter(job[j].attempt, settings.MAX_RETRIES)
                    THEN /\ SetJob(j, [pc |-> "send_sleep"])
                         /\ obs' = [obs EXCEPT ![j] = o]
                         /\ running' = 0
                    ELSE IF job[j].attempt + 1 < settings.MAX_RETRIES
                    THEN /\ SetJob(j, [pc |-> "send_post",
                                       attempt |-> job[j].attempt + 1])
                         /\ obs' = [obs EXCEPT ![j] = o]
                         /\ running' = 0
                    ELSE SendReturn(j, o, "False", [sender |-> job[j].sender])
    /\ UNCHANGED <<settings, repos, commits>>

\* The backoff sleep of _send_with_retry ends (evaluator.py:139-146, 101):
\* the delay is doubled up to the ceiling, a jitter is added, and the next
\* POST is sent, or the loop ends.
SendSleep(j) ==
    /\ CanRun(j)
    /\ job[j].pc = "send_sleep"
    /\ \E tenths \in JitterDraws :
        LET doubled == Backoff(job[j].delay, settings.MAX_RETRY_DELAY)
            o == Merge(obs[j], [sendSleeps |-> obs[j].sendSleeps + 1,
                                slept |-> job[j].delay,
                                base |-> doubled])
            delayed == doubled + Jitter(doubled, tenths)
        IN  IF job[j].attempt + 1 < settings.MAX_RETRIES
            THEN /\ SetJob(j, [pc |-> "send_post",
                               attempt |-> job[j].attempt + 1,
                               delay |-> delayed])
                 /\ obs' = [obs EXCEPT ![j] = o]
                 /\ running' = 0
            ELSE SendReturn(j, o, "False",
                            [sender |-> job[j].sender, delay |-> delayed])
    /\ UNCHANGED <<settings, repos, commits>>

\* ------------------------------------------------------------ the system

\* One job in flight.
Jobs == {1}

Step(j) ==
    \/ \E secret \in SecretSamples : create_build(j, secret, Request(j))
    \/ StartJob(j)
    \/ GenerateRaises(j)
    \/ GenerateBackoff(j)
    \/ GenerateCode(j)
    \/ GenerateReadme(j)
    \/ CreateRepository(j)
    \/ CreateRepositorySettled(j)
    \/ AddLicense(j)
    \/ PushCode(j)
    \/ EnablePages(j)
    \/ PagesWait(j)
    \/ PagesProbe(j)
    \/ Notify(j)
    \/ NotifyFailure(j)
    \/ SendPost(j)
    \/ SendSleep(j)

Next == \E j \in Jobs : Step(j)

Spec == Init /\ [][Next]_vars


\* The process as configured by its environment, on an account that has no
\* repository yet.
InitConfigured ==
    /\ settings \in SettingsSamples
    /\ JobInit
    /\ repos = [r \in RepoNames |-> NoRepo]
    /\ commits = <<>>

SpecConfigured == InitConfigured /\ [][Next]_vars

\* The event loop runs every coroutine that is ready, and every external
\* call returns or raises.
FairSpec == Spec /\ \A j \in Jobs : WF_vars(Step(j))

\* Two rounds of one task, one after the other, on an account that has no
\* repository yet: the request of the second round arrives when the job of
\* the first has ended.  The callback is given two attempts and the model
\* answers every invocation.
RoundsSettings ==
    [MAX_RETRIES |-> 2, INITIAL_RETRY_DELAY |-> INITIAL_RETRY_DELAY,
     MAX_RETRY_DELAY |-> MAX_RETRY_DELAY]

InitRounds ==
    /\ settings = RoundsSettings
    /\ JobInit
    /\ repos = [r \in RepoNames |-> NoRepo]
    /\ commits = <<>>

PreviousRoundsOver(j) ==
    \A i \in AllJobs : i < j => job[i].pc \in {"done", "failed", "rejected"}

RoundStep(j) ==
    \/ \E secret \in SecretSamples :
            PreviousRoundsOver(j) /\ create_build(j, secret, Request(j))
    \/ StartJob(j)
    \/ GenerateCode(j)
    \/ GenerateReadme(j)
    \/ CreateRepository(j)
    \/ CreateRepositorySettled(j)
    \/ AddLicense(j)
    \/ PushCode(j)
    \/ EnablePages(j)
    \/ PagesWait(j)
    \/ PagesProbe(j)
    \/ Notify(j)
    \/ NotifyFailure(j)
    \/ SendPost(j)
    \/ SendSleep(j)

NextRounds == \E j \in AllJobs : RoundStep(j)

SpecRounds == InitRounds /\ [][NextRounds]_vars


\* Two requests for tasks of their own, in flight at the same time on an
\* account that has no repository yet: each is queued when the event loop
\* is free, and the loop runs whichever coroutine is ready.  The callback
\* is given one attempt and the model answers every invocation.
ConcurrentSettings ==
    [MAX_RETRIES |-> 1, INITIAL_RETRY_DELAY |-> INITIAL_RETRY_DELAY,
     MAX_RETRY_DELAY |-> MAX_RETRY_DELAY]

InitConcurrent ==
    /\ settings = ConcurrentSettings
    /\ JobInit
    /\ repos = [r \in RepoNames |-> NoRepo]
    /\ commits = <<>>

ConcurrentStep(j) ==
    \/ create_build(j, APP_SECRET, OwnTaskRequest(j))
    \/ StartJob(j)
    \/ GenerateCode(j)
    \/ GenerateReadme(j)
    \/ CreateRepository(j)
    \/ CreateRepositorySettled(j)
    \/ AddLicense(j)
    \/ PushCode(j)
    \/ EnablePages(j)
    \/ PagesWait(j)
    \/ PagesProbe(j)
    \/ Notify(j)
    \/ NotifyFailure(j)
    \/ SendPost(j)

NextConcurrent == \E j \in AllJobs : ConcurrentStep(j)

SpecConcurrent == InitConcurrent /\ [][NextConcurrent]_vars


\* Two rounds of one task in flight at the same time: the request of the
\* second round is queued whenever the event loop is free, also before the
\* job of the first has ended.  The account has no repository yet, or has
\* the repository of the task with commits on a default branch of either
\* name and no LICENSE.  The site answers 200 to the second probe of a
\* job at the latest.
SameTaskProbes == 2

InitSameTask ==
    /\ settings = ConcurrentSettings
    /\ JobInit
    /\ \E branch \in Branches, found \in BOOLEAN :
        LET name == Request(1).task
        IN  /\ ~found => branch = "main"
            /\ commits = IF found THEN History(name, MaxHistory, FALSE) ELSE <<>>
            /\ repos = [r \in RepoNames |->
                          IF found /\ r = name
                          THEN [exists |-> TRUE,
                                default_branch |-> branch,
                                refs |-> [b \in Branches |->
                                             IF b = branch THEN MaxHistory ELSE 0],
                                pages |-> FALSE]
                          ELSE NoRepo]

SameTaskStep(j) ==
    \/ create_build(j, APP_SECRET, Request(j))
    \/ StartJob(j)
    \/ GenerateCode(j)
    \/ GenerateReadme(j)
    \/ CreateRepository(j)
    \/ CreateRepositorySettled(j)
    \/ AddLicense(j)
    \/ PushCode(j)
    \/ EnablePages(j)
    \/ PagesWait(j)
    \/ PagesProbe(j) /\ job'[j].pollAttempt < SameTaskProbes
    \/ Notify(j)
    \/ NotifyFailure(j)
    \/ SendPost(j)

NextSameTask == \E j \in AllJobs : SameTaskStep(j)

SpecSameTask == InitSameTask /\ [][NextSameTask]_vars


\* ------------------------------------------------------------- properties

Ended(j) == job[j].pc \in {"done", "failed"}

InSendLoop(j) == job[j].pc \in {"send_post", "send_sleep"}

StepsBeforeNotify == {StepOrder[i] : i \in 1..(Len(StepOrder) - 1)}

\* The step a position of process_build_request belongs to.
StepOfPc(pc) ==
    CASE pc \in {"generate_code", "generate_code_backoff"} -> "generate_code"
      [] pc \in {"generate_readme", "generate_readme_backoff"} -> "generate_readme"
      [] pc \in {"create_repository", "create_repository_settle"} ->
            "create_repository"
      [] pc = "add_license" -> "add_license"
      [] pc = "push_code" -> "push_code"
      [] pc \in {"enable_pages", "pages_wait", "pages_probe"} -> "enable_pages"
      [] pc = "notify" -> "notify"
      [] OTHER -> ""

\* The success notification failed: notify raised, or its delivery failed.
NotifyFailed(j) ==
    \/ obs[j].failedStep = "notify"
    \/ job[j].sender = "notify" /\ obs[j].sendResult = "False"

\* C1, as stated: whichever pipeline step fails, the success notification
\* included, once the job has ended notify_failure has been invoked exactly
\* once with the error's description and notify has never been invoked.
C1_AnyStepFailureNotifiesFailure ==
    \A j \in AllJobs :
        (Ended(j) /\ (obs[j].failedStep # "" \/ NotifyFailed(j))) =>
            /\ obs[j].failCalls = 1
            /\ obs[j].failErr = job[j].err
            /\ obs[j].notifyCalls = 0

\* C1, amended: when a step before the success notification fails (generate
\* code, generate README, create repository, add license, push code, enable
\* Pages), notify is never invoked for the job and notify_failure is
\* invoked exactly once, with the description of the error; a success
\* notification whose delivery fails invokes no notify_failure.
C1_FailureBeforeNotifyNotifiesOnce ==
    \A j \in AllJobs :
        /\ obs[j].failedStep \in StepsBeforeNotify =>
            /\ obs[j].notifyCalls = 0
            /\ obs[j].failCalls <= 1
            /\ job[j].pc # "except" =>
                /\ obs[j].failCalls = 1
                /\ obs[j].failErr = job[j].err
                /\ obs[j].failErr # ""
        /\ (job[j].sender = "notify" /\ obs[j].sendResult = "False") =>
            obs[j].failCalls = 0

\* push_code failed, notify_failure was invoked once and delivered.
C1_Witness ==
    \E j \in AllJobs :
        /\ obs[j].failedStep = "push_code"
        /\ job[j].pc = "failed"
        /\ obs[j].failCalls = 1
        /\ obs[j].sendResult = "True"

\* C2: the steps of a job start in the order of StepOrder, each after all
\* the steps before it returned; the job is always inside the step started
\* last; once a step failed, it stays the last step started.
C2_StepsInOrder ==
    \A j \in AllJobs :
        /\ IsPrefix(obs[j].trace, StepOrder)
        /\ obs[j].trace # <<>> => obs[j].completed >= Len(obs[j].trace) - 1
        /\ StepOfPc(job[j].pc) # "" =>
            /\ obs[j].trace # <<>>
            /\ obs[j].trace[Len(obs[j].trace)] = StepOfPc(job[j].pc)
            /\ obs[j].failedStep = ""
        /\ obs[j].failedStep # "" =>
            /\ obs[j].trace[Len(obs[j].trace)] = obs[j].failedStep
            /\ obs[j].completed = Len(obs[j].trace) - 1

\* add_license failed after three steps returned, and the job has ended.
C2_Witness ==
    \E j \in AllJobs :
        /\ obs[j].failedStep = "add_license"
        /\ job[j].pc = "failed"
        /\ obs[j].trace = SubSeq(StepOrder, 1, 4)

\* C3: no error leaves process_build_request: after a step failed the job
\* is in its handler or has returned, and when notify_failure itself raises
\* the job returns as well.
C3_NoErrorEscapes ==
    \A j \in AllJobs :
        /\ job[j].pc # "crashed"
        /\ obs[j].outcome \in {"", "done", "failed"}
        /\ obs[j].failedStep # "" =>
            job[j].pc \in {"except", "send_post", "send_sleep", "failed"}
        /\ obs[j].failRaised => job[j].pc = "failed"

\* A step failed and notify_failure raised; the job returned.
C3_Witness ==
    \E j \in AllJobs :
        /\ obs[j].failedStep = "enable_pages"
        /\ obs[j].failRaised
        /\ job[j].pc = "failed"

\* C4: every job that was queued ends, completed or failed, when every
\* external call returns or raises.
C4_JobTerminates ==
    \A j \in Jobs : (job[j].pc = "queued") ~> Ended(j)

\* A job ended after it used up the polling of Pages and the attempts of
\* the callback.
C4_Witness ==
    \E j \in AllJobs :
        /\ job[j].pc = "done"
        /\ obs[j].sendTries = MAX_RETRIES
        /\ obs[j].llmCalls = 2 * LLM_MAX_RETRIES

\* C5: whenever a step of a job has started, and whenever the job has
\* ended either way, the request was answered "accepted" for that task and
\* round; a request answered 401 starts no step.
C5_AcceptedBeforePipeline ==
    \A j \in AllJobs :
        /\ (obs[j].trace # <<>> \/ job[j].pc \notin {"idle", "rejected"}) =>
            obs[j].ack = BuildResponse(Request(j))
        /\ job[j].pc = "rejected" =>
            obs[j].ack = Unauthorized /\ obs[j].trace = <<>>

\* An accepted job ended failed.
C5_Witness ==
    \E j \in AllJobs :
        /\ job[j].pc = "failed"
        /\ obs[j].failedStep = "generate_code"
        /\ obs[j].ack.status = "accepted"

\* C6: a job sends at most MAX_RETRIES POST requests to the callback URL,
\* the success and the failure notification counted together.
C6_PostsBounded ==
    \A j \in AllJobs :
        /\ obs[j].posts <= settings.MAX_RETRIES
        /\ obs[j].notifyCalls + obs[j].failCalls <= 2
        /\ obs[j].sendTries = obs[j].posts

\* The success notification used all MAX_RETRIES POSTs.
C6_Witness ==
    \E j \in AllJobs :
        /\ job[j].pc = "done"
        /\ obs[j].posts = MAX_RETRIES
        /\ obs[j].sendResult = "False"

\* C7: _send_with_retry returns True exactly when a POST was answered 2xx,
\* and that POST is its last: no POST and no sleep follows it.
C7_TrueIffAnswered2xx ==
    \A j \in AllJobs :
        /\ obs[j].sendResult = "True" <=> obs[j].seen2xx > 0
        /\ obs[j].seen2xx > 0 =>
            /\ obs[j].seen2xx = 1
            /\ obs[j].lastClass = "2xx"
            /\ ~InSendLoop(j)
            /\ obs[j].sendSleeps = obs[j].sendTries - 1

\* The third POST was answered 2xx and True was returned.
C7_Witness ==
    \E j \in AllJobs :
        /\ obs[j].sendResult = "True"
        /\ obs[j].sendTries = 3
        /\ obs[j].sendSleeps = 2

\* C8: a POST answered 4xx is the last of its call, which returns False
\* with no sleep after it; answered 4xx at once, the call has used one
\* attempt whatever MAX_RETRIES is.  After any other outcome that is not
\* 2xx the call goes on while attempts are left: it returns False only
\* with all MAX_RETRIES attempts used.
C8_ClientErrorEndsCall ==
    \A j \in AllJobs :
        /\ obs[j].seen4xx > 0 =>
            /\ obs[j].seen4xx = 1
            /\ obs[j].lastClass = "4xx"
            /\ obs[j].sendResult = "False"
            /\ ~InSendLoop(j)
            /\ obs[j].sendSleeps = obs[j].sendTries - 1
        /\ (obs[j].lastClass = "other" /\ obs[j].sendTries < settings.MAX_RETRIES) =>
            /\ InSendLoop(j)
            /\ obs[j].sendResult = ""
        /\ (obs[j].lastClass = "other" /\ obs[j].sendResult # "") =>
            /\ obs[j].sendResult = "False"
            /\ obs[j].sendTries = settings.MAX_RETRIES

\* With four attempts configured, the first POST was answered 4xx and the
\* call returned False.
C8_Witness ==
    \E j \in AllJobs :
        /\ settings.MAX_RETRIES = 4
        /\ obs[j].seen4xx = 1
        /\ obs[j].sendTries = 1
        /\ obs[j].sendSleeps = 0
        /\ obs[j].sendResult = "False"

\* C9: a retry loop sleeps only between attempts.  _send_with_retry has
\* slept once less than it has posted when it returns, so MAX_RETRIES - 1
\* times when it used all attempts; _generate_with_retry has slept
\* LLM_MAX_RETRIES - 1 times when it raises after its last attempt.
C9_NoSleepAfterLastAttempt ==
    \A j \in AllJobs :
        /\ obs[j].sendSleeps <= obs[j].sendTries
        /\ (obs[j].sendResult # "" /\ obs[j].sendTries > 0) =>
            obs[j].sendSleeps = obs[j].sendTries - 1
        /\ obs[j].llmSleeps <= obs[j].llmTries
        /\ obs[j].llmRaised =>
            /\ obs[j].llmTries = LLM_MAX_RETRIES
            /\ obs[j].llmSleeps = LLM_MAX_RETRIES - 1

\* The model failed three times, and the failure notification failed
\* MAX_RETRIES times.
C9_Witness ==
    \E j \in AllJobs :
        /\ obs[j].llmRaised
        /\ obs[j].llmSleeps = LLM_MAX_RETRIES - 1
        /\ obs[j].sendResult = "False"
        /\ obs[j].sendTries = MAX_RETRIES
        /\ obs[j].sendSleeps = MAX_RETRIES - 1

\* C10: the first delay of _send_with_retry is INITIAL_RETRY_DELAY; after
\* a sleep of delay d the next delay is, before its jitter, the smaller of
\* 2 * d and MAX_RETRY_DELAY, and with its jitter within 10% of that and
\* not negative.
C10_DelayDoublesUpToCeiling ==
    \A j \in AllJobs :
        /\ (InSendLoop(j) /\ obs[j].sendSleeps = 0) =>
            job[j].delay = settings.INITIAL_RETRY_DELAY
        /\ obs[j].sendSleeps > 0 =>
            /\ obs[j].base = (IF 2 * obs[j].slept < settings.MAX_RETRY_DELAY
                              THEN 2 * obs[j].slept
                              ELSE settings.MAX_RETRY_DELAY)
            /\ 10 * (job[j].delay - obs[j].base) <= obs[j].base
            /\ 10 * (obs[j].base - job[j].delay) <= obs[j].base
            /\ job[j].delay >= 0
            /\ obs[j].slept >= 0

\* Twice the delay slept was over the ceiling: the next delay is the
\* ceiling, less its jitter.
C10_Witness ==
    \E j \in AllJobs :
        /\ obs[j].sendSleeps = 2
        /\ 2 * obs[j].slept > settings.MAX_RETRY_DELAY
        /\ obs[j].base = settings.MAX_RETRY_DELAY
        /\ job[j].delay < obs[j].base

HostingSteps == {"create_repository", "add_license", "push_code", "enable_pages"}

FailurePath(j) ==
    \/ job[j].pc \in {"except", "failed"}
    \/ InSendLoop(j) /\ job[j].sender = "notify_failure"

\* _send_with_retry used up its attempts: none was answered 2xx or 4xx.
SendExhausted(j) ==
    /\ obs[j].sendResult = "False"
    /\ obs[j].seen4xx = 0
    /\ obs[j].sendTries > 0

\* C11, as stated: when every attempt of a retried call failed, the caller
\* receives an exhausted-retries outcome and not the error of the last
\* attempt: _send_with_retry returns False after MAX_RETRIES POSTs, and
\* what _generate_with_retry raises is its exhausted-retries error, not the
\* error the model raised last.
C11_ExhaustedNotOriginalError ==
    \A j \in AllJobs :
        /\ SendExhausted(j) => obs[j].sendTries = settings.MAX_RETRIES
        /\ obs[j].llmRaised =>
            /\ obs[j].llmTries = LLM_MAX_RETRIES
            /\ job[j].err = ExhaustedError
            /\ job[j].err # obs[j].llmLastErr

\* C12, as stated: a transient failure of an external call is retried and
\* does not fail the job on its first occurrence, the hosting-API calls of
\* create_repository, add_license, push_code and enable_github_pages
\* included.
C12_EveryExternalCallRetried ==
    \A j \in AllJobs :
        /\ obs[j].llmRaised => obs[j].llmTries > 1
        /\ (SendExhausted(j) /\ settings.MAX_RETRIES > 1) => obs[j].sendTries > 1
        /\ (obs[j].failedStep \in HostingSteps /\ obs[j].hostFaults > 0) =>
            obs[j].hostFaults > 1

\* C12, amended: the model invocation and the callback POST are retried
\* after a transient failure, up to LLM_MAX_RETRIES and MAX_RETRIES
\* attempts; a hosting-API call is made once, and its transient failure
\* fails the job at that step on its first occurrence.
C12_OnlyModelAndCallbackRetried ==
    \A j \in AllJobs :
        /\ obs[j].llmRaised =>
            /\ obs[j].llmTries = LLM_MAX_RETRIES
            /\ obs[j].llmSleeps = LLM_MAX_RETRIES - 1
        /\ SendExhausted(j) =>
            /\ obs[j].sendTries = settings.MAX_RETRIES
            /\ obs[j].sendSleeps = settings.MAX_RETRIES - 1
        /\ obs[j].hostFaults <= 1
        /\ obs[j].hostFaults = 1 =>
            /\ obs[j].failedStep \in HostingSteps
            /\ FailurePath(j)
            /\ obs[j].notifyCalls = 0

\* The first 5xx of add_license failed the job, after the model was invoked
\* again following a failure.
C12_Witness ==
    \E j \in AllJobs :
        /\ obs[j].failedStep = "add_license"
        /\ obs[j].hostFaults = 1
        /\ obs[j].llmCalls > 2
        /\ job[j].pc = "failed"

\* The '.html' files of a file map.
HtmlFilesOf(files) == {k \in DOMAIN files : EndsWithHtml(k)}

\* The model answered the code prompt of job j with a JSON object that has
\* no 'index.html'.
ParsedWithoutIndex(j) ==
    /\ obs[j].codeResp.json = "dict"
    /\ "index.html" \notin DOMAIN obs[j].codeResp.files

\* C13: when the parsed file map has no 'index.html' and exactly one
\* '.html' file, generate_app_code returns the map with that entry under
\* 'index.html': the same content, the same number of entries, the old key
\* gone, the other entries untouched; with no or several '.html' files it
\* raises the error of the missing index.html, also when the answer holds an
\* HTML document, and returns no map.
C13_SingleHtmlPromoted ==
    \A j \in AllJobs :
        ParsedWithoutIndex(j) =>
            LET files == obs[j].codeResp.files
                html_files == HtmlFilesOf(files)
                result == job[j].app_code
            IN  IF Cardinality(html_files) = 1
                THEN LET old == CHOOSE k \in html_files : TRUE
                     IN  /\ obs[j].failedStep # "generate_code"
                         /\ obs[j].completed >= 1
                         /\ "index.html" \in DOMAIN result
                         /\ result["index.html"] = files[old]
                         /\ old \notin DOMAIN result
                         /\ Cardinality(DOMAIN result) = Cardinality(DOMAIN files)
                         /\ \A k \in DOMAIN files \ {old} :
                                k \in DOMAIN result /\ result[k] = files[k]
                ELSE /\ obs[j].failedStep = "generate_code"
                     /\ job[j].err = "Generated code must include index.html"
                     /\ result = NoFiles
                     /\ obs[j].completed = 0
                     /\ FailurePath(j)

\* 'app.html' was promoted and the job went on to push the map.
C13_Witness ==
    \E j \in AllJobs :
        /\ ParsedWithoutIndex(j)
        /\ HtmlFilesOf(obs[j].codeResp.files) = {"app.html"}
        /\ job[j].app_code["index.html"] = "c1"
        /\ obs[j].pushed

\* create_repository of job j returned a handle.
CreateReturned(j) == obs[j].completed >= StepIndex("create_repository")

\* create_repository of job j was called.
CreateCalled(j) == Len(obs[j].trace) >= StepIndex("create_repository")

\* C14: when create_repository is called for a name for which an earlier
\* call returned a handle, it issues no create-repo call and waits for no
\* settle delay, the repository keeps the commits it had, and the handle it
\* returns is the one the earlier call returned.
C14_SecondCallReuses ==
    \A i, j \in AllJobs :
        (i < j /\ CreateReturned(i) /\ CreateCalled(j)
               /\ job[i].params.task = job[j].params.task) =>
            /\ obs[j].creates = 0
            /\ job[j].pc # "create_repository_settle"
            /\ repos[job[i].repo].exists
            /\ job[i].commit_sha # 0 =>
                  commits[job[i].commit_sha].repo = job[i].repo
            /\ CreateReturned(j) =>
                /\ job[j].repo = job[i].repo
                /\ job[j].default_branch = repos[job[j].repo].default_branch
                /\ HtmlUrl(job[j].repo) = HtmlUrl(job[i].repo)

\* The first round created the repository and the second round got its
\* handle without a create-repo call.
C14_Witness ==
    \E i, j \in AllJobs :
        /\ i < j
        /\ obs[i].creates = 1
        /\ CreateReturned(i)
        /\ CreateReturned(j)
        /\ obs[j].creates = 0
        /\ job[j].repo = job[i].repo

\* push_code of job j returned a commit.
PushReturned(j) == obs[j].refMode # ""

\* The files push_code of job j is given: the file map and README.md.
PushedFiles(j) ==
    [p \in DOMAIN job[j].app_code \cup {ReadmePath} |->
        IF p = ReadmePath THEN job[j].readme ELSE job[j].app_code[p]]

\* The tree of commit c holds every file push_code of job j is given.
HoldsPushedFiles(c, j) ==
    \A p \in DOMAIN PushedFiles(j) :
        p \in DOMAIN commits[c].tree /\ commits[c].tree[p] = PushedFiles(j)[p]

\* C15, as stated: the commit push_code returns on a repository whose
\* default branch had a head has that head as its only parent and a tree
\* that keeps the paths of the prior tree the file map does not name, and
\* the existing reference was updated; on an empty repository the commit
\* has no parent and the reference was created.
C15_CommitBuiltOnPriorHead ==
    \A j \in AllJobs :
        PushReturned(j) =>
            LET c == commits[job[j].commit_sha]
                base == obs[j].pushBase
            IN  /\ HoldsPushedFiles(job[j].commit_sha, j)
                /\ IF base # 0
                   THEN /\ c.parent = base
                        /\ \A p \in DOMAIN commits[base].tree \ DOMAIN PushedFiles(j) :
                              p \in DOMAIN c.tree /\ c.tree[p] = commits[base].tree[p]
                        /\ obs[j].refMode = "update"
                   ELSE /\ c.parent = 0
                        /\ obs[j].refMode = "create"

\* C16: once push_code of a job was called, whether it returned or failed
\* at any of its calls, every branch of the repository has the head it had
\* when push_code started, except at most one branch, whose head is the
\* commit push_code returned, which holds every file of the file map and
\* README.md; after a failed push_code no head has moved.
C16_HeadOldOrComplete ==
    \A j \in AllJobs :
        obs[j].pushed =>
            LET refs == repos[job[j].repo].refs
                moved == {b \in Branches : refs[b] # obs[j].pushRefs[b]}
            IN  /\ Cardinality(moved) <= 1
                /\ \A b \in moved :
                    /\ PushReturned(j)
                    /\ refs[b] = job[j].commit_sha
                    /\ HoldsPushedFiles(refs[b], j)
                /\ BranchHead(job[j].repo) \in {obs[j].pushBase, job[j].commit_sha}
                /\ obs[j].failedStep = "push_code" => moved = {}
                /\ PushReturned(j) => Cardinality(moved) = 1

\* push_code failed when it updated the reference: the commit with every
\* file exists, and the head is where it was.
C16_Witness ==
    \E j \in AllJobs :
        /\ obs[j].failedStep = "push_code"
        /\ obs[j].pushBase # 0
        /\ BranchHead(job[j].repo) = obs[j].pushBase
        /\ \E c \in 1..Len(commits) :
            /\ c > obs[j].pushBase
            /\ HoldsPushedFiles(c, j)
            /\ commits[c].parent = obs[j].pushBase

\* enable_github_pages of job j is in its readiness polling.
Polling(j) == job[j].pc \in {"pages_wait", "pages_probe"}

\* C17: once Pages is enabled, the probes cannot fail enable_github_pages:
\* during the polling no error is raised, a failure of the step has made no
\* probe, and when the step has returned, after a probe answered 200 or
\* after PAGES_MAX_RETRIES probes that answered another status or raised,
\* the URL is https://{username}.github.io/{repo name}/ and the success
\* notification is the step that starts.
C17_ProbesNeverFailPages ==
    \A j \in AllJobs :
        /\ Polling(j) =>
            /\ obs[j].failedStep = ""
            /\ job[j].pages_url = PagesUrl(job[j].params.task)
            /\ obs[j].probes <= PAGES_MAX_RETRIES
        /\ obs[j].failedStep = "enable_pages" => obs[j].probes = 0
        /\ obs[j].probes > 0 /\ ~Polling(j) =>
            /\ job[j].pc = "notify"
            /\ obs[j].trace = StepOrder
            /\ job[j].pages_url = PagesUrl(job[j].params.task)
            /\ "200" \in obs[j].probeKinds \/ obs[j].probes = PAGES_MAX_RETRIES
        /\ obs[j].completed >= StepIndex("enable_pages") =>
            job[j].pages_url =
                <<"https://", GITHUB_USERNAME, ".github.io/", job[j].repo, "/">>

\* Every probe raised, and the success notification is about to start.
C17_Witness ==
    \E j \in AllJobs :
        /\ job[j].pc = "notify"
        /\ obs[j].probes = PAGES_MAX_RETRIES
        /\ obs[j].probeKinds = {"raise"}

SuccessFields ==
    {"email", "task", "round", "nonce", "repo_url", "commit_sha", "pages_url"}

FailureFields == {"email", "task", "round", "nonce", "status", "error"}

\* C18: the payload of every POST of a job carries the email, task, round
\* and nonce of that job's build request and goes to its evaluation URL;
\* the success payload carries besides them the URL of the repository of
\* that task, the commit push_code of that job returned and the Pages URL
\* of that repository, and the failure payload the status "failure" and
\* the error of the step that failed.
C18_PayloadCarriesJobFields ==
    \A j \in AllJobs :
        obs[j].posts > 0 =>
            LET p == obs[j].posted
                r == Request(j)
            IN  /\ p.email = r.email
                /\ p.task = r.task
                /\ p.round = r.round
                /\ p.nonce = r.nonce
                /\ obs[j].postedTo = r.evaluation_url
                /\ IF job[j].sender = "notify"
                   THEN /\ DOMAIN p = SuccessFields
                        /\ p.repo_url = HtmlUrl(r.task)
                        /\ PushReturned(j)
                        /\ p.commit_sha = job[j].commit_sha
                        /\ commits[p.commit_sha].repo = r.task
                        /\ HoldsPushedFiles(p.commit_sha, j)
                        /\ p.pages_url = PagesUrl(r.task)
                        /\ obs[j].failCalls = 0
                   ELSE /\ DOMAIN p = FailureFields
                        /\ p.status = "failure"
                        /\ p.error = job[j].err
                        /\ p.error # ""
                        /\ obs[j].failedStep # ""

\* Both rounds posted: the first its failure, the second its success, each
\* with its own round and nonce.
C18_Witness ==
    /\ obs[1].posts > 0
    /\ obs[2].posts > 0
    /\ job[1].sender = "notify_failure"
    /\ job[2].sender = "notify"
    /\ obs[1].posted.nonce # obs[2].posted.nonce
    /\ obs[2].posted.commit_sha = job[2].commit_sha

\* C19: when _send_with_retry called by notify returned False, after a 4xx
\* answer or after MAX_RETRIES attempts, nothing was raised: the job has
\* ended as completed with every step returned, notify_failure was not
\* invoked and the only payload posted is the success payload.
C19_UndeliveredSuccessCompletes ==
    \A j \in AllJobs :
        (job[j].sender = "notify" /\ obs[j].sendResult = "False") =>
            /\ job[j].pc = "done"
            /\ obs[j].outcome = "done"
            /\ obs[j].completed = Len(StepOrder)
            /\ obs[j].failedStep = ""
            /\ job[j].err = ""
            /\ obs[j].failCalls = 0
            /\ obs[j].notifyCalls = 1
            /\ obs[j].seen4xx = 1 \/ obs[j].sendTries = settings.MAX_RETRIES
            /\ obs[j].posts > 0 => DOMAIN obs[j].posted = SuccessFields

\* The second POST of the success notification was answered 4xx and the
\* job ended as completed.
C19_Witness ==
    \E j \in AllJobs :
        /\ job[j].sender = "notify"
        /\ obs[j].sendResult = "False"
        /\ obs[j].lastClass = "4xx"
        /\ obs[j].sendTries = 2
        /\ job[j].pc = "done"

\* C20: every step of every job leaves the history of every repository
\* append-only: a repository and its default branch name stay, no commit
\* is changed or removed, and a branch head that changes goes to a new
\* commit whose parent is the head it had, also in a push_code whose head
\* lookup failed on a branch that has a head.
C20_HistoryAppendOnly ==
    [][\A n \in RepoNames :
        /\ repos[n].exists =>
            /\ repos'[n].exists
            /\ repos'[n].default_branch = repos[n].default_branch
        /\ Len(commits') >= Len(commits)
        /\ SubSeq(commits', 1, Len(commits)) = commits
        /\ \A b \in Branches :
            repos'[n].refs[b] # repos[n].refs[b] =>
                /\ repos'[n].refs[b] > Len(commits)
                /\ commits'[repos'[n].refs[b]].parent = repos[n].refs[b]
                /\ commits'[repos'[n].refs[b]].repo = n]_vars

\* The push of the first round failed after its head lookup failed, the
\* head staying the license commit, and the second round pushed its commit
\* on top of that head.
C20_Witness ==
    /\ obs[1].failedStep = "push_code"
    /\ job[1].err = "github 422"
    /\ obs[1].pushBase # 0
    /\ PushReturned(2)
    /\ obs[2].pushBase = obs[1].pushBase
    /\ commits[job[2].commit_sha].parent = obs[2].pushBase
    /\ BranchHead(job[2].repo) = job[2].commit_sha

\* generate_app_code of job j returned a file map.
CodeReturned(j) == obs[j].completed >= StepIndex("generate_code")

\* C21: every file map generate_app_code returns holds 'index.html': the
\* map of the JSON object when it has the key, that map with its single
\* '.html' entry renamed, or, when the answer is no JSON and holds an HTML
\* document, the map whose only entry is 'index.html' with that document;
\* in every other case generate_app_code raises and returns no map, and
\* push_code is never called with a map that lacks 'index.html'.
C21_FileMapHoldsIndex ==
    \A j \in AllJobs :
        LET r == obs[j].codeResp
            files == job[j].app_code
        IN  /\ CodeReturned(j) =>
                /\ "index.html" \in DOMAIN files
                /\ r.json \in {"dict", "invalid"}
                /\ r.json = "dict" =>
                    \/ "index.html" \in DOMAIN r.files /\ files = r.files
                    \/ /\ "index.html" \notin DOMAIN r.files
                       /\ Cardinality(HtmlFilesOf(r.files)) = 1
                /\ r.json = "invalid" =>
                    /\ r.html # ""
                    /\ DOMAIN files = {"index.html"}
                    /\ files["index.html"] = r.html
            /\ obs[j].failedStep = "generate_code" =>
                /\ files = NoFiles
                /\ ~obs[j].pushed
            /\ obs[j].pushed => "index.html" \in DOMAIN files
            /\ \A c \in 1..Len(commits) :
                  (PushReturned(j) /\ c = job[j].commit_sha) =>
                      "index.html" \in DOMAIN commits[c].tree

\* push_code was called with the map of the embedded-HTML fallback.
C21_Witness ==
    \E j \in AllJobs :
        /\ obs[j].codeResp.json = "invalid"
        /\ obs[j].pushed
        /\ DOMAIN job[j].app_code = {"index.html"}
        /\ PushReturned(j)

\* C22: create_repository issues a create-repo call only after its lookup
\* was answered not-found (404); after any other failure of the lookup it
\* issues none, returns no handle, and the failure goes to the handler of
\* process_build_request as the error of the job.
C22_CreateOnlyOnNotFound ==
    \A j \in AllJobs :
        /\ obs[j].creates <= 1
        /\ obs[j].creates = 1 => obs[j].repoLookup = 404
        /\ obs[j].repoLookup = 200 => obs[j].creates = 0
        /\ obs[j].repoLookup \notin {0, 200, 404} =>
            /\ obs[j].creates = 0
            /\ job[j].repo = ""
            /\ ~CreateReturned(j)
            /\ obs[j].failedStep = "create_repository"
            /\ job[j].err = GithubError(obs[j].repoLookup)
            /\ FailurePath(j)
            /\ obs[j].failErr \in {"", job[j].err}

\* The lookup of a repository that exists was answered 403: the job failed
\* with that error, and no create-repo call was issued.
C22_Witness ==
    \E j \in AllJobs :
        /\ obs[j].repoLookup = 403
        /\ repos[job[j].params.task].exists
        /\ obs[j].creates = 0
        /\ obs[j].failErr = "github 403"
        /\ job[j].pc = "failed"

\* The commits of a repository that bring a LICENSE file into a tree that
\* had none.
LicenseCommits(name) ==
    {c \in 1..Len(commits) :
        /\ commits[c].repo = name
        /\ LicensePath \in DOMAIN commits[c].tree
        /\ \/ commits[c].parent = 0
           \/ LicensePath \notin DOMAIN commits[commits[c].parent].tree}

\* No job after j has reached the hosting side yet.
NoLaterJob(j) == \A i \in AllJobs : i > j => ~CreateCalled(i)

\* add_license of job j has just ended, job j holding the event loop or
\* being on its failure path.
LicenseJustEnded(j) ==
    /\ obs[j].licLookup # 0
    /\ NoLaterJob(j)
    /\ \/ job[j].pc = "push_code" /\ ~obs[j].pushed
       \/ obs[j].failedStep = "add_license"

\* C23: add_license changes nothing when its lookup finds a LICENSE file at
\* the root of the repository; when the lookup is answered not-found it
\* makes one commit on top of the head, whose tree is the tree of the head
\* with LICENSE added; when the lookup fails otherwise it commits nothing
\* and fails the job; over the jobs that ran on a repository one after the
\* other, at most one commit brought a LICENSE file into it.
C23_LicenseAddedOnce ==
    /\ \A name \in RepoNames : Cardinality(LicenseCommits(name)) <= 1
    /\ \A j \in AllJobs :
        LicenseJustEnded(j) =>
            LET name == job[j].repo
                before == obs[j].licHead
                old == IF before = 0 THEN NoFiles ELSE commits[before].tree
            IN  CASE obs[j].licLookup = 200 ->
                        /\ LicensePath \in DOMAIN old
                        /\ Len(commits) = obs[j].licCommits
                        /\ BranchHead(name) = before
                        /\ obs[j].failedStep = ""
                  [] obs[j].licLookup = 404 /\ obs[j].failedStep = "" ->
                        /\ LicensePath \notin DOMAIN old
                        /\ Len(commits) = obs[j].licCommits + 1
                        /\ BranchHead(name) = Len(commits)
                        /\ commits[Len(commits)].parent = before
                        /\ DOMAIN commits[Len(commits)].tree =
                              DOMAIN old \cup {LicensePath}
                        /\ \A p \in DOMAIN old :
                              commits[Len(commits)].tree[p] = old[p]
                  [] OTHER ->
                        /\ obs[j].failedStep = "add_license"
                        /\ Len(commits) = obs[j].licCommits
                        /\ BranchHead(name) = before
                        /\ FailurePath(j)

\* The first round committed the LICENSE file and the second round, finding
\* it, went on to push without another commit.
C23_Witness ==
    \E i, j \in AllJobs :
        /\ i < j
        /\ obs[i].licLookup = 404
        /\ PushReturned(i)
        /\ obs[j].licLookup = 200
        /\ LicenseJustEnded(j)
        /\ job[j].pc = "push_code"
        /\ Cardinality(LicenseCommits(job[j].repo)) = 1

\* enable_github_pages of job j went on to its readiness polling or
\* returned.
PagesEnabled(j) ==
    /\ obs[j].failedStep = ""
    /\ Polling(j) \/ job[j].pc = "notify"

\* enable_github_pages of job j failed before it made a probe.
PagesFailedEarly(j) ==
    /\ obs[j].failedStep = "enable_pages"
    /\ obs[j].probes = 0
    /\ FailurePath(j)

\* C24: when the lookup of the Pages status is answered 200,
\* enable_github_pages sends no enable request and goes on; when it is
\* answered 404, one enable request is sent, and 201 and 409 both let the
\* step go on; any other answer to either request, or a request that
\* raises, fails the step before any reachability probe is made.
C24_AlreadyEnabledIsSuccess ==
    \A j \in AllJobs :
        LET req == obs[j].pagesReq
        IN  req # <<>> =>
                CASE req[1] = 200 -> Len(req) = 1 /\ PagesEnabled(j)
                  [] req[1] = 404 ->
                        /\ Len(req) = 2
                        /\ IF req[2] \in {201, 409}
                           THEN PagesEnabled(j)
                           ELSE PagesFailedEarly(j)
                  [] OTHER -> Len(req) = 1 /\ PagesFailedEarly(j)

\* The enable request was answered 409 and the polling made a probe.
C24_Witness ==
    \E j \in AllJobs :
        /\ obs[j].pagesReq = <<404, 409>>
        /\ Polling(j)
        /\ obs[j].probes > 0

\* C25: the readiness polling makes at most PAGES_MAX_RETRIES probes; a
\* wait of PAGES_POLL_INTERVAL seconds comes before each probe, so that
\* the waits that ended are as many as the probes sent; and no wait or
\* probe follows a probe that answered 200: the polling has returned, after
\* that probe or after PAGES_MAX_RETRIES probes.
C25_PollingBoundedAndStopsOn200 ==
    \A j \in AllJobs :
        /\ obs[j].probes <= PAGES_MAX_RETRIES
        /\ obs[j].waits <= PAGES_MAX_RETRIES
        /\ obs[j].waits > 0 => obs[j].pollWait = PAGES_POLL_INTERVAL
        /\ job[j].pc = "pages_wait" =>
            /\ obs[j].waits = obs[j].probes
            /\ job[j].pollAttempt = obs[j].probes
        /\ job[j].pc = "pages_probe" => obs[j].waits = obs[j].probes + 1
        /\ Polling(j) => "200" \notin obs[j].probeKinds
        /\ (obs[j].probes > 0 /\ ~Polling(j)) =>
            /\ obs[j].waits = obs[j].probes
            /\ job[j].pc = "notify"
            /\ \/ "200" \in obs[j].probeKinds
               \/ obs[j].probes = PAGES_MAX_RETRIES

\* The polling returned after a probe answered 200 that followed probes
\* which did not, with attempts left.
C25_Witness ==
    \E j \in AllJobs :
        /\ job[j].pc = "notify"
        /\ obs[j].probeKinds = {"200", "status", "raise"}
        /\ obs[j].probes = 3
        /\ obs[j].waits = 3

\* Job j takes the step.
StepOf(j) == job'[j] # job[j] \/ obs'[j] # obs[j]

\* C26: a step job j takes on its failure path, from the handler of
\* process_build_request to the end of notify_failure, changes no
\* repository and no commit: what the earlier steps of the job created is
\* left as it was.
C26_NoRollback ==
    [][\A j \in AllJobs :
          (FailurePath(j) /\ StepOf(j)) =>
              /\ repos' = repos
              /\ commits' = commits
              /\ FailurePath(j)']_vars

\* The job failed when it enabled Pages, and ended with its repository, the
\* LICENSE commit and the pushed commit in place.
C26_Witness ==
    \E j \in AllJobs :
        /\ job[j].pc = "failed"
        /\ obs[j].failedStep = "enable_pages"
        /\ obs[j].creates = 1
        /\ obs[j].licLookup = 404
        /\ repos[job[j].repo].exists
        /\ BranchHead(job[j].repo) = job[j].commit_sha
        /\ LicensePath \in DOMAIN HeadTree(job[j].repo)
        /\ HoldsPushedFiles(job[j].commit_sha, j)

\* The attempts of _generate_with_retry the model sees of a function f.
BackoffAttempts == 0..7

\* C27: a call of _generate_with_retry invokes the model at most
\* LLM_MAX_RETRIES times; whatever the model raised, a failed attempt that
\* is not the last is followed by a sleep and another invocation, the
\* sleep after failed attempt number a (from 0) being min(2^a,
\* LLM_MAX_BACKOFF) seconds; the last failed attempt is followed by no
\* sleep; and a job invokes the model at most 2 * LLM_MAX_RETRIES times.
C27_ModelInvocationsBounded ==
    /\ \A a \in BackoffAttempts :
          _exponential_backoff(a) = IF 2 ^ a > LLM_MAX_BACKOFF
                                    THEN LLM_MAX_BACKOFF ELSE 2 ^ a
    /\ \A j \in AllJobs :
        /\ obs[j].llmTries <= LLM_MAX_RETRIES
        /\ obs[j].llmCalls <= 2 * LLM_MAX_RETRIES
        /\ obs[j].llmSleeps <= LLM_MAX_RETRIES - 1
        /\ obs[j].llmSleeps > 0 =>
              obs[j].llmDelay = Min(2 ^ (obs[j].llmSleeps - 1), LLM_MAX_BACKOFF)
        /\ job[j].pc \in {BackoffPc(s) : s \in LLMSteps} =>
            /\ obs[j].llmLastErr \in ModelErrors
            /\ obs[j].llmTries = job[j].llmAttempt + 1
            /\ obs[j].llmSleeps = job[j].llmAttempt
            /\ obs[j].llmTries < LLM_MAX_RETRIES
            /\ obs[j].failedStep = ""
        /\ job[j].pc \in LLMSteps =>
            /\ obs[j].llmTries = job[j].llmAttempt
            /\ obs[j].llmSleeps = job[j].llmAttempt
        /\ obs[j].llmRaised =>
            /\ obs[j].llmTries = LLM_MAX_RETRIES
            /\ obs[j].llmSleeps = LLM_MAX_RETRIES - 1
            /\ obs[j].failedStep \in LLMSteps

\* The model failed twice for the code and answered, then failed three
\* times for the README: six invocations, the last sleep being of 2 s.
C27_Witness ==
    \E j \in AllJobs :
        /\ obs[j].llmCalls = 2 * LLM_MAX_RETRIES
        /\ obs[j].llmRaised
        /\ obs[j].failedStep = "generate_readme"
        /\ obs[j].llmSleeps = 2
        /\ obs[j].llmDelay = 2

\* Job j is in a model invocation: model.generate_content was called and
\* has not returned.
AtModelCall(j) == job[j].pc \in LLMSteps

\* Job j is in the hosting-API calls of a method of GitHubService.
AtHostingCall(j) == job[j].pc \in HostingSteps

\* Job j is in a reachability probe or in a callback POST.
AtHttpxCall(j) == job[j].pc \in {"pages_probe", "send_post"}

\* Job j is in a sleep: a backoff, the settle delay, or a polling wait.
AtSleep(j) ==
    job[j].pc \in {"generate_code_backoff", "generate_readme_backoff",
                   "create_repository_settle", "pages_wait", "send_sleep"}

\* C28, as stated: a job that waits on an external call (a model
\* invocation, a hosting-API call, a reachability probe, a callback POST)
\* or on a sleep does not hold the event loop, so that any other job that
\* is ready can take a step meanwhile.
C28_SuspendsAtEveryExternalCall ==
    \A i \in AllJobs :
        (AtModelCall(i) \/ AtHostingCall(i) \/ AtHttpxCall(i) \/ AtSleep(i)) =>
            /\ running # i
            /\ \A j \in AllJobs \ {i} : job[j].pc = "queued" => CanRun(j)

\* What a commit is made of: its tree and the content of its parent.
RECURSIVE CommitContent(_)
CommitContent(c) ==
    IF c = 0 THEN <<>>
    ELSE <<commits[c].tree, CommitContent(commits[c].parent)>>

\* What job j commits when it runs alone on an account that has no
\* repository: the LICENSE commit, on top of it the commit of push_code,
\* and, when the head lookup of push_code fails, a root commit that no
\* branch takes.
LicenseTree == [p \in {LicensePath} |-> "mit"]

AloneLicense == <<LicenseTree, <<>>>>

AlonePush(j) == <<Overlay(LicenseTree, PushedFiles(j)), AloneLicense>>

AloneRoot(j) == <<PushedFiles(j), <<>>>>

\* The commits of a repository.
CommitsOf(name) == {c \in 1..Len(commits) : commits[c].repo = name}

\* add_license of job j made its commit.
LicenseCommitted(j) ==
    obs[j].licLookup = 404 /\ obs[j].completed >= StepIndex("add_license")

\* Job j and its repository are as the answers job j got make them when it
\* runs alone.
AsAlone(j) ==
    LET name == OwnTaskRequest(j).task
        mine == CommitsOf(name)
        head == CommitContent(BranchHead(name))
    IN  /\ job[j].pc # "idle" => job[j].params = BindParams(TaskArgs(OwnTaskRequest(j)))
        /\ job[j].repo \in {"", name}
        /\ repos[name].exists <=> job[j].repo = name
        /\ repos[name].refs["master"] = 0
        /\ \A c \in mine :
              CommitContent(c) \in {AloneLicense, AlonePush(j), AloneRoot(j)}
        /\ Cardinality(mine) =
              (IF LicenseCommitted(j) THEN 1 ELSE 0) +
              (IF \E c \in mine : CommitContent(c) # AloneLicense THEN 1 ELSE 0)
        /\ head = IF PushReturned(j) THEN AlonePush(j)
                  ELSE IF LicenseCommitted(j) THEN AloneLicense
                  ELSE <<>>
        /\ repos[name].pages => obs[j].completed >= StepIndex("push_code")
        /\ obs[j].pagesReq # <<>> =>
              (repos[name].pages <=> obs[j].pagesReq = <<404, 201>>)
        /\ obs[j].posted # NoPayload =>
            /\ obs[j].postedTo = OwnTaskRequest(j).evaluation_url
            /\ \A f \in {"email", "task", "round", "nonce"} :
                  obs[j].posted[f] = OwnTaskRequest(j)[f]
            /\ IF job[j].sender = "notify"
               THEN /\ obs[j].posted.repo_url = HtmlUrl(name)
                    /\ obs[j].posted.pages_url = PagesUrl(name)
                    /\ CommitContent(obs[j].posted.commit_sha) = AlonePush(j)
                    /\ obs[j].failedStep = ""
               ELSE /\ obs[j].posted.error = job[j].err
                    /\ obs[j].failedStep # ""
        /\ job[j].pc = "done" =>
            /\ obs[j].failedStep = ""
            /\ head = AlonePush(j)
            /\ obs[j].posts = 1
        /\ job[j].pc = "failed" => obs[j].failedStep # ""

\* C29: of two jobs in flight for different tasks, every step is the step
\* of one job, changes neither the locals of the other, nor what was
\* observed of it, nor its repository, nor the commits of its repository;
\* and under any interleaving each job ends, and leaves its repository and
\* the payload it posts, as the answers it got make them when it runs
\* alone.
C29_DistinctTasksDoNotInterfere ==
    /\ [](\A j \in AllJobs : AsAlone(j))
    /\ [][\A i, j \in AllJobs :
            (i # j /\ StepOf(i)) =>
                /\ job'[j] = job[j]
                /\ obs'[j] = obs[j]
                /\ repos'[OwnTaskRequest(j).task] = repos[OwnTaskRequest(j).task]
                /\ Len(commits') > Len(commits) =>
                      commits'[Len(commits')].repo # OwnTaskRequest(j).task
                /\ IsPrefix(commits, commits')]_vars

\* The two jobs overlapped: the job that committed first is still polling
\* when the other, which committed after it, has ended with its success
\* notification delivered.
C29_Witness ==
    /\ Len(commits) = 4
    /\ commits[1].repo = OwnTaskRequest(2).task
    /\ commits[3].repo = OwnTaskRequest(1).task
    /\ job[1].pc = "done"
    /\ obs[1].sendResult = "True"
    /\ job[2].pc = "pages_probe"
    /\ AsAlone(1) /\ AsAlone(2)

\* push_code of job j took the branch of the empty repository: a commit
\* without parents, and the creation of the reference, which went through
\* or was refused.
RootBranchTaken(j) ==
    \/ obs[j].refMode = "create"
    \/ obs[j].failedStep = "push_code" /\ job[j].err = "github 422"

\* When push_code of job j starts, the default branch has a head, whose
\* tree holds LICENSE.
HeadAtPushStart(j) ==
    /\ (job[j].pc = "push_code" /\ ~obs[j].pushed) =>
        /\ BranchHead(job[j].repo) # 0
        /\ LicensePath \in DOMAIN HeadTree(job[j].repo)
        /\ job[j].default_branch = repos[job[j].repo].default_branch
    /\ obs[j].pushed =>
        /\ obs[j].pushBase # 0
        /\ obs[j].pushLookup \in {"found", "failed"}
        /\ LicensePath \in DOMAIN commits[obs[j].pushBase].tree

\* C30, as stated: when push_code starts, the default branch of the
\* repository has a head, add_license having found or committed LICENSE;
\* so every commit push_code returns has a parent and a tree that holds
\* LICENSE, and the branch of the empty repository is taken only when the
\* head lookup failed.
C30_PushAlwaysFindsHead ==
    \A j \in AllJobs :
        /\ HeadAtPushStart(j)
        /\ RootBranchTaken(j) => obs[j].pushLookup = "failed"
        /\ PushReturned(j) =>
            /\ commits[job[j].commit_sha].parent # 0
            /\ LicensePath \in DOMAIN commits[job[j].commit_sha].tree

\* Jobs i and j are two jobs for the same task.
SameTask(i, j) ==
    /\ i # j
    /\ job[i].pc # "idle" /\ job[j].pc # "idle"
    /\ job[i].params.task = job[j].params.task

\* push_code of job i returned its commit before push_code of job j
\* returned its own.
PushedBefore(i, j) ==
    /\ PushReturned(i) /\ PushReturned(j)
    /\ job[i].commit_sha < job[j].commit_sha

\* C31, as stated: of two jobs in flight for the same task, the push that
\* comes later is built on the push that came earlier, its commit having
\* the commit of the earlier push as its parent, so that no push is lost;
\* and the two jobs together issue at most one create-repo call.
C31_NoLostUpdate ==
    \A i, j \in AllJobs :
        SameTask(i, j) =>
            /\ PushedBefore(i, j) =>
                  commits[job[j].commit_sha].parent = job[i].commit_sha
            /\ obs[i].creates + obs[j].creates <= 1

====
